---- MODULE Spec2Model ----
(***************************************************************************)
(* Model of the smart-research-assistant: the Streamlit script app.py, the *)
(* AIAssistant operations of ai_assistant.py, DocumentProcessor.extract_   *)
(* text and utils.clear_session_state.                                     *)
(*                                                                         *)
(* One user event is one run of the script app.py from its first line, on  *)
(* the session state the previous run left; a run that ends in st.rerun()  *)
(* is followed at once by a second run with no widget triggered.  Python   *)
(* strings the code inspects (file names, document text, summaries) are    *)
(* sequences of one-character strings; strings it only passes on are TLA+  *)
(* strings.  Python lists are sequences (list index i is position i + 1),  *)
(* dicts are functions, None is the string "None".                         *)
(***************************************************************************)
EXTENDS Integers, Sequences, FiniteSets, TLC

VARIABLES
    session_state,  \* st.session_state: a function from the keys it holds
    uploaded_file,  \* the value of the st.file_uploader widget
    last,           \* observation of the last event: inputs, calls, outcome
    passages,       \* a call of extract_relevant_passages: arguments, reply, result
    extraction      \* a call of extract_text: the file, the result

vars == <<session_state, uploaded_file, last, passages, extraction>>

(***************************************************************************)
(* Bounds of the model.                                                    *)
(***************************************************************************)
MaxParagraphs == 5     \* paragraphs of a document given to extract_relevant_passages
MaxHistory == 4        \* entries of qa_history, where the conversation is followed
MaxQuestions == 3      \* questions the model returns, where the quiz is followed
ShallowHistory == 1    \* entries of qa_history, where the quiz is followed

(***************************************************************************)
(* Python string and list helpers.                                         *)
(***************************************************************************)
Whitespace == {" ", "\n", "\t"}

Min(a, b) == IF a < b THEN a ELSE b
Max(a, b) == IF a > b THEN a ELSE b

\* seq[start:] for a start that may be negative (Python slice semantics).
SliceFrom(seq, start) ==
    LET n == Len(seq)
        lo == IF start < 0 THEN Max(n + start, 0) ELSE Min(start, n)
    IN SubSeq(seq, lo + 1, n)

\* seq[:stop] for stop >= 0.
SliceTo(seq, stop) == SubSeq(seq, 1, Min(stop, Len(seq)))

RECURSIVE LStrip(_)
LStrip(s) == IF s # <<>> /\ Head(s) \in Whitespace THEN LStrip(Tail(s)) ELSE s

RECURSIVE RStrip(_)
RStrip(s) ==
    IF s # <<>> /\ s[Len(s)] \in Whitespace THEN RStrip(SubSeq(s, 1, Len(s) - 1)) ELSE s

\* str.strip()
Strip(s) == RStrip(LStrip(s))

LowerChar(c) ==
    CASE c = "T" -> "t" [] c = "X" -> "x" [] c = "P" -> "p" [] c = "D" -> "d"
      [] c = "F" -> "f" [] c = "A" -> "a" [] c = "B" -> "b" [] OTHER -> c

\* str.lower()
Lower(s) == [i \in 1..Len(s) |-> LowerChar(s[i])]

\* s.split('.')[-1]: what follows the last '.', the whole string if there is none.
RECURSIVE LastSegment(_)
LastSegment(s) ==
    IF \E i \in 1..Len(s) : s[i] = "."
    THEN LastSegment(SubSeq(s, (CHOOSE i \in 1..Len(s) : s[i] = ".") + 1, Len(s)))
    ELSE s

\* d[k] = v on a dict.
SetKey(d, k, v) == [x \in DOMAIN d \cup {k} |-> IF x = k THEN v ELSE d[x]]

(***************************************************************************)
(* Session state (app.py lines 14-28, utils.py lines 5-19).                *)
(***************************************************************************)
Keys ==
    {"document_content", "document_summary", "document_name", "interaction_mode",
     "challenge_questions", "challenge_answers", "qa_history"}

\* The value app.py gives a key that st.session_state does not hold.
DefaultValue(k) == IF k = "interaction_mode" THEN "None" ELSE <<>>

\* app.py lines 15-28: every missing key is set to its initial value.
InitSessionState(s) == [k \in Keys |-> IF k \in DOMAIN s THEN s[k] ELSE DefaultValue(k)]

\* Mutant: interaction_mode is missing from the list of keys.
keys_to_clear_without_mode ==
    {"document_content", "document_summary", "document_name", "challenge_questions",
     "challenge_answers", "qa_history"}

\* Mutant: qa_history is missing from the list of keys.
keys_to_clear_without_history ==
    {"document_content", "document_summary", "document_name", "interaction_mode",
     "challenge_questions", "challenge_answers"}

keys_to_clear ==
    {"document_content", "document_summary", "document_name", "interaction_mode",
     "challenge_questions", "challenge_answers", "qa_history"}

\* Mutant: the answers of the quiz survive a clear.
clear_session_state_keeping_answers(s) ==
    [k \in DOMAIN s \ (keys_to_clear \ {"challenge_answers"}) |-> s[k]]

\* utils.clear_session_state: del st.session_state[key] for every listed key.
clear_session_state(s) == [k \in DOMAIN s \ keys_to_clear |-> s[k]]

(***************************************************************************)
(* Replies of the remote model.  A call either raises (transport failure)  *)
(* or returns a message content.  The content of a JSON call is text that  *)
(* json.loads rejects, or a JSON object (a function from its keys).        *)
(***************************************************************************)
TransportError == [kind |-> "error"]
NonJson == [kind |-> "nonjson"]
JsonObject(f) == [kind |-> "object", fields |-> f]
TextReply(t) == [kind |-> "text", content |-> t]

Raised == [ok |-> FALSE]
Returned(v) == [ok |-> TRUE, value |-> v]

\* json.loads(response.choices[0].message.content)
json_loads(reply) ==
    IF reply.kind = "object" THEN Returned(reply) ELSE Raised

\* result[key] on a json.loads result: KeyError / TypeError unless an object with key.
HasKey(v, key) == v.kind = "object" /\ key \in DOMAIN v.fields

(***************************************************************************)
(* DocumentProcessor (document_processor.py).  An uploaded file is its     *)
(* name, what each candidate encoding makes of its bytes, and what         *)
(* pdfplumber makes of them.                                               *)
(***************************************************************************)
encodings == <<"utf-8", "utf-16", "latin-1", "cp1252">>

Decoded(t) == [ok |-> TRUE, text |-> t]
UnicodeDecodeError == [ok |-> FALSE]

\* f"\n--- Page {page_num} ---\n"
PageMarker(page_num) ==
    <<"\n", "-", "-", "-", " ", "P", "a", "g", "e", " ", ToString(page_num),
      " ", "-", "-", "-", "\n">>

\* document_processor.py lines 47-54: the text of pages 1..n, blank pages skipped.
RECURSIVE PdfText(_, _)
PdfText(pages, n) ==
    IF n = 0 THEN <<>>
    ELSE PdfText(pages, n - 1)
         \o (IF pages[n] # <<>> THEN PageMarker(n) \o pages[n] \o <<"\n">> ELSE <<>>)

_extract_pdf_text(file) ==
    IF ~file.pdf.ok THEN Raised
    ELSE LET text_content == PdfText(file.pdf.pages, Len(file.pdf.pages))
         IN IF Strip(text_content) = <<>> THEN Raised
            ELSE Returned(Strip(text_content))

\* Mutant: the first encoding whose text is not blank decides.
_extract_txt_text_skipping_blank(file) ==
    IF \A e \in 1..Len(encodings) : ~file.decode[e].ok \/ Strip(file.decode[e].text) = <<>>
    THEN Raised
    ELSE LET e == CHOOSE x \in 1..Len(encodings) :
                      /\ file.decode[x].ok /\ Strip(file.decode[x].text) # <<>>
                      /\ \A y \in 1..(x - 1) :
                             ~file.decode[y].ok \/ Strip(file.decode[y].text) = <<>>
         IN Returned(Strip(file.decode[e].text))

\* The first encoding that decodes the bytes decides: an empty text raises at once.
_extract_txt_text(file) ==
    IF \A e \in 1..Len(encodings) : ~file.decode[e].ok THEN Raised
    ELSE LET e == CHOOSE x \in 1..Len(encodings) :
                      /\ file.decode[x].ok
                      /\ \A y \in 1..(x - 1) : ~file.decode[y].ok
             text_content == file.decode[e].text
         IN IF Strip(text_content) = <<>> THEN Raised
            ELSE Returned(Strip(text_content))

extract_text(file) ==
    LET file_extension == LastSegment(Lower(file.name))
    IN IF file_extension = <<"p", "d", "f">> THEN _extract_pdf_text(file)
       ELSE IF file_extension = <<"t", "x", "t">> THEN _extract_txt_text(file)
       ELSE Raised

(***************************************************************************)
(* AIAssistant (ai_assistant.py).  Each operation takes the reply the      *)
(* remote model gives to its one call.                                     *)
(***************************************************************************)
generate_summary(document_text, reply) ==
    IF reply.kind = "text" THEN Returned(Strip(reply.content)) ELSE Raised

\* f"Q: {qa['question']}\nA: {qa['answer']}\n\n"
RenderQA(qa) == <<"Q: ", qa.question, "\nA: ", qa.answer, "\n\n">>

RECURSIVE RenderAll(_)
RenderAll(entries) ==
    IF entries = <<>> THEN <<>> ELSE RenderQA(Head(entries)) \o RenderAll(Tail(entries))

\* Mutant: the first three entries instead of the last three.
BuildContextFirstThree(conversation_history) ==
    IF conversation_history = <<>> THEN <<>>
    ELSE <<"Previous conversation:\n">> \o RenderAll(SliceTo(conversation_history, 3))

\* ai_assistant.py lines 66-71: the context block of the answer prompt.
BuildContext(conversation_history) ==
    IF conversation_history = <<>> THEN <<>>
    ELSE <<"Previous conversation:\n">> \o RenderAll(SliceFrom(conversation_history, -3))

\* Mutant: a failed call is answered with an apology instead of raising.
answer_question_swallowing(question, document_text, conversation_history, reply) ==
    IF reply.kind = "object" THEN Returned(reply)
    ELSE Returned(JsonObject([answer |-> "sorry", citation |-> "none"]))

answer_question(question, document_text, conversation_history, reply) ==
    IF reply.kind = "error" THEN Raised ELSE json_loads(reply)

generate_challenge_questions(document_text, reply) ==
    IF reply.kind = "error" THEN Raised
    ELSE LET result == json_loads(reply)
         IN IF result.ok /\ HasKey(result.value, "questions")
            THEN Returned(result.value.fields["questions"])
            ELSE Raised

\* Mutant: a failed call is scored zero instead of raising.
evaluate_answer_swallowing(question, user_answer, expected_answer, document_text, reply) ==
    IF reply.kind = "object" THEN Returned(reply)
    ELSE Returned(JsonObject([score |-> 0, feedback |-> "unavailable"]))

evaluate_answer(question, user_answer, expected_answer, document_text, reply) ==
    IF reply.kind = "error" THEN Raised ELSE json_loads(reply)

MinChunkChars == 50    \* len(chunk.strip()) > 50
ChunkLimit == 20       \* chunks[:20]

\* The positions where document_text.split('\n\n') finds a separator: scanning from
\* the left, each pair of newlines that starts an even number of newlines into its
\* run of newlines.
Separators(s) ==
    LET newlines == {i \in 1..Len(s) : s[i] = "\n"}
        RunStart(i) == CHOOSE j \in newlines :
                           /\ j <= i
                           /\ \A k \in j..i : k \in newlines
                           /\ (j - 1) \notin newlines
    IN {i \in newlines : (i + 1) \in newlines /\ (i - RunStart(i)) % 2 = 0}

\* document_text.split('\n\n')
SplitBlankLines(s) ==
    LET seps == Separators(s)
        Nth(k) == CHOOSE i \in seps : Cardinality({j \in seps : j < i}) = k - 1
        n == Cardinality(seps)
    IN [k \in 1..(n + 1) |->
           SubSeq(s, IF k = 1 THEN 1 ELSE Nth(k - 1) + 2, IF k = n + 1 THEN Len(s) ELSE Nth(k) - 1)]

\* Mutant: the pieces are measured stripped but kept as they are.
ChunksUnstripped(document_text) ==
    LET pieces == SplitBlankLines(document_text)
        Eligible(chunk) == Len(Strip(chunk)) > MinChunkChars
    IN SelectSeq(pieces, Eligible)

\* ai_assistant.py line 254: the stripped pieces longer than 50 characters.
Chunks(document_text) ==
    LET pieces == SplitBlankLines(document_text)
        stripped == [k \in 1..Len(pieces) |-> Strip(pieces[k])]
        Eligible(chunk) == Len(chunk) > MinChunkChars
    IN SelectSeq(stripped, Eligible)

\* chunks[i] in Python: a negative i counts from the end.
ListItem(chunks, i) == IF i >= 0 THEN chunks[i + 1] ELSE chunks[Len(chunks) + i + 1]

\* [chunks[i] for i in indices if i < len(chunks)]
RECURSIVE Picked(_, _)
Picked(chunks, indices) ==
    IF indices = <<>> THEN <<>>
    ELSE (IF Head(indices) < Len(chunks) THEN <<ListItem(chunks, Head(indices))>> ELSE <<>>)
         \o Picked(chunks, Tail(indices))

\* ai_assistant.py lines 240-296.  called: the model was called; sent: the chunks
\* the prompt showed it.  The value of relevant_chunk_indices is a list of
\* integers or something else.
extract_relevant_passages(question, document_text, num_passages, reply) ==
    LET chunks == Chunks(document_text)
        sent == SliceTo(chunks, ChunkLimit)
        fallback == [result |-> Returned(SliceTo(chunks, num_passages)), called |-> TRUE,
                     sent |-> sent]
        result == json_loads(reply)
        indices == IF HasKey(result.value, "relevant_chunk_indices")
                   THEN result.value.fields["relevant_chunk_indices"]
                   ELSE [type |-> "list", items |-> <<>>]
    IN IF Len(chunks) <= num_passages
       THEN [result |-> Returned(chunks), called |-> FALSE, sent |-> <<>>]
       ELSE IF reply.kind = "error" \/ ~result.ok THEN fallback
       ELSE IF indices.type # "list" THEN fallback
       ELSE IF \E k \in 1..Len(indices.items) : indices.items[k] < -Len(chunks) THEN fallback
       ELSE [result |-> Returned(Picked(chunks, indices.items)), called |-> TRUE, sent |-> sent]

(***************************************************************************)
(* Inputs: the files a user may upload, the texts a user may type, and the *)
(* replies the remote model may give.                                      *)
(***************************************************************************)
NoFile == [name |-> <<>>, none |-> TRUE]

NoPdf == [ok |-> FALSE, pages |-> <<>>]
NoDecoding == <<UnicodeDecodeError, UnicodeDecodeError, UnicodeDecodeError, UnicodeDecodeError>>

\* a.txt: utf-8 text with surrounding whitespace.
FileA ==
    [name |-> <<"a", ".", "t", "x", "t">>,
     decode |-> <<Decoded(<<" ", "d", "o", "c", "\n">>), UnicodeDecodeError,
                  Decoded(<<" ", "d", "o", "c", "\n">>), Decoded(<<" ", "d", "o", "c", "\n">>)>>,
     pdf |-> NoPdf]

\* Another file named a.txt: not utf-8, and blank once decoded as utf-16.
FileA2 ==
    [name |-> <<"a", ".", "t", "x", "t">>,
     decode |-> <<UnicodeDecodeError, Decoded(<<" ", "\n">>),
                  Decoded(<<"y", "\t">>), Decoded(<<"y", "\t">>)>>,
     pdf |-> NoPdf]

\* b.PDF: a scanned document of two pages, neither has text.
FileB ==
    [name |-> <<"b", ".", "P", "D", "F">>,
     decode |-> NoDecoding,
     pdf |-> [ok |-> TRUE, pages |-> <<<<>>, <<>>>>]]

Files == {FileA, FileA2, FileB}

SummaryReplies == {TransportError, TextReply(<<" ", "S", "\n">>), TextReply(<<" ">>)}

AnswerFull == [answer |-> "a1", citation |-> "c1", confidence |-> "high"]
AnswerNoConfidence == [answer |-> "a1", citation |-> "c1"]
AnswerNoCitation == [answer |-> "a1", confidence |-> "high"]
AnswerNoAnswer == [citation |-> "c1", confidence |-> "high"]

AnswerReplies ==
    {TransportError, NonJson, JsonObject(AnswerFull), JsonObject(AnswerNoConfidence),
     JsonObject(AnswerNoCitation), JsonObject(AnswerNoAnswer)}

QuestionA == [question |-> "cqA", expected_answer |-> "eaA", reasoning_required |-> "rA"]
QuestionB == [question |-> "cqB", expected_answer |-> "eaB", reasoning_required |-> "rB"]
QuestionNoExpected == [question |-> "cqM"]

\* The question lists the model may return: any length up to maxq, well formed
\* or with elements that lack expected_answer.
QuestionLists(maxq) ==
    {[i \in 1..n |-> IF i % 2 = 1 THEN QuestionA ELSE QuestionB] : n \in 0..maxq}
    \cup {[i \in 1..n |-> IF i % 2 = 1 THEN QuestionB ELSE QuestionNoExpected] : n \in 1..maxq}

\* The lists of at most one question.
ShortQuestionLists == QuestionLists(1)

QuestionReplies(lists) ==
    {TransportError, NonJson, JsonObject([other |-> "x"])}
    \cup {JsonObject([questions |-> l]) : l \in lists}

EvaluationFull ==
    [score |-> 85, feedback |-> "fb", strengths |-> "st",
     areas_for_improvement |-> "ar", citation |-> "ci"]
EvaluationNoScore == [feedback |-> "fb"]

EvaluationReplies ==
    {TransportError, NonJson, JsonObject(EvaluationFull), JsonObject(EvaluationNoScore)}

NoReply == [kind |-> "none"]

(***************************************************************************)
(* What a run shows of itself: the event that started it, how its handler  *)
(* ended ("ok", "skipped" when no handler code ran, or the failure), the      *)
(* operations it invoked in order, the inputs of the event, the reply the  *)
(* remote model gave, and the context block sent with an answer prompt.    *)
(***************************************************************************)
Observation(ev, outcome, calls, file, text, index, reply, context) ==
    [ev |-> ev, outcome |-> outcome, calls |-> calls, file |-> file, text |-> text,
     index |-> index, reply |-> reply, context |-> context]

(***************************************************************************)
(* The script app.py, block by block.  s is st.session_state.              *)
(***************************************************************************)
S(k) == InitSessionState(session_state)[k]

\* app.py lines 48-68: the upload block, run with the uploader's current value.
\* rerun: the block ended in st.rerun().
UploadBlock(s, file, reply) ==
    IF file = NoFile \/ file.name = s["document_name"]
    THEN [s |-> s, rerun |-> FALSE, outcome |-> "skipped", calls |-> <<>>]
    ELSE LET cleared == SetKey(clear_session_state(s), "document_name", file.name)
             document_text == extract_text(file)
         IN IF ~document_text.ok
            THEN [s |-> cleared, rerun |-> FALSE, outcome |-> "extract_failed",
                  calls |-> <<"extract_text">>]
            ELSE LET loaded == SetKey(cleared, "document_content", document_text.value)
                     summary == generate_summary(document_text.value, reply)
                 IN IF ~summary.ok
                    THEN [s |-> loaded, rerun |-> FALSE, outcome |-> "summary_failed",
                          calls |-> <<"extract_text", "generate_summary">>]
                    ELSE [s |-> SetKey(loaded, "document_summary", summary.value),
                          rerun |-> TRUE, outcome |-> "ok",
                          calls |-> <<"extract_text", "generate_summary">>]

\* A run in which no button is clicked: lines 15-28, then the upload block; after
\* st.rerun() the script runs once more (the name is then the uploader's).  What
\* follows line 68 only reads the session state, and stops the run with an
\* AttributeError at line 71 or 93 where the key it reads was deleted.
ScriptRun(s, file, reply) ==
    LET first == UploadBlock(InitSessionState(s), file, reply)
    IN IF first.rerun
       THEN [first EXCEPT !.s = UploadBlock(InitSessionState(first.s), file, reply).s]
       ELSE first

\* A run in which a button is clicked passes the upload block without entering it:
\* every run leaves document_name equal to the uploader's file name, if it holds one.
UploadIdle == uploaded_file = NoFile \/ uploaded_file.name = S("document_name")

\* app.py line 71 / 81: a document is loaded, the buttons below are reached.
DocumentLoaded == UploadIdle /\ S("document_content") # <<>>

(* User events on the uploader. *)

\* The user puts a file into the uploader (replacing the one it holds).
UploadDocument(file, reply) ==
    LET run == ScriptRun(session_state, file, reply)
    IN /\ session_state' = run.s
       /\ uploaded_file' = file
       /\ last' = Observation("UploadDocument", run.outcome, run.calls, file.name, "", -1,
                              IF Len(run.calls) = 2 THEN reply ELSE NoReply, <<>>)
       /\ UNCHANGED <<passages, extraction>>

\* The user removes the file from the uploader: uploaded_file is None in the run.
RemoveFile ==
    /\ uploaded_file # NoFile
    /\ session_state' = ScriptRun(session_state, NoFile, NoReply).s
    /\ uploaded_file' = NoFile
    /\ last' = Observation("RemoveFile", "skipped", <<>>, <<>>, "", -1, NoReply, <<>>)
    /\ UNCHANGED <<passages, extraction>>

\* app.py lines 76-78: clear_session_state(), st.rerun(); the rerun finds the
\* uploader still holding its file.
ClearDocument(reply) ==
    /\ DocumentLoaded
    /\ LET run == ScriptRun(clear_session_state(InitSessionState(session_state)),
                            uploaded_file, reply)
       IN /\ session_state' = run.s
          /\ last' = Observation("ClearDocument", run.outcome, run.calls, uploaded_file.name,
                                 "", -1, IF Len(run.calls) = 2 THEN reply ELSE NoReply, <<>>)
    /\ UNCHANGED <<uploaded_file, passages, extraction>>

\* app.py lines 101-103.
SelectAskAnything ==
    /\ DocumentLoaded
    /\ session_state' = SetKey(InitSessionState(session_state), "interaction_mode", "ask_anything")
    /\ last' = Observation("SelectAskAnything", "ok", <<>>, <<>>, "", -1, NoReply, <<>>)
    /\ UNCHANGED <<uploaded_file, passages, extraction>>

\* app.py lines 111-116 and 232-238: generate and store the questions.
GenerateInto(s, reply) ==
    LET questions == generate_challenge_questions(s["document_content"], reply)
    IN IF questions.ok THEN [s |-> SetKey(s, "challenge_questions", questions.value), ok |-> TRUE]
       ELSE [s |-> s, ok |-> FALSE]

\* Mutant: the questions are generated whether or not some are held.
SelectChallengeMeAlwaysGenerating(reply) ==
    /\ DocumentLoaded
    /\ LET s1 == SetKey(InitSessionState(session_state), "interaction_mode", "challenge_me")
           gen == GenerateInto(s1, reply)
       IN /\ session_state' = gen.s
          /\ last' = Observation("SelectChallengeMe", IF gen.ok THEN "ok" ELSE "failed",
                                 <<"generate_challenge_questions">>, <<>>, "", -1,
                                 reply, <<>>)
    /\ UNCHANGED <<uploaded_file, passages, extraction>>

\* app.py lines 106-117.
SelectChallengeMe(reply) ==
    /\ DocumentLoaded
    /\ LET s1 == SetKey(InitSessionState(session_state), "interaction_mode", "challenge_me")
       IN IF s1["challenge_questions"] = <<>>
          THEN LET gen == GenerateInto(s1, reply)
               IN /\ session_state' = gen.s
                  /\ last' = Observation("SelectChallengeMe", IF gen.ok THEN "ok" ELSE "failed",
                                         <<"generate_challenge_questions">>, <<>>, "", -1,
                                         reply, <<>>)
          ELSE /\ session_state' = s1
               /\ last' = Observation("SelectChallengeMe", "skipped", <<>>, <<>>, "", -1,
                                      NoReply, <<>>)
    /\ UNCHANGED <<uploaded_file, passages, extraction>>

\* Mutant: the new entry is put first.
AddToHistoryFirst(qa_history, user_question, answer_data) ==
    <<[question |-> user_question,
       answer |-> answer_data.fields["answer"],
       citation |-> answer_data.fields["citation"]]>> \o qa_history

\* app.py lines 142-146: st.session_state.qa_history.append({...}).
AddToHistory(qa_history, user_question, answer_data) ==
    Append(qa_history,
           [question |-> user_question,
            answer |-> answer_data.fields["answer"],
            citation |-> answer_data.fields["citation"]])

\* app.py lines 134-150: the try block has an answer and appends it.
AnswerStored(answer_data) ==
    /\ answer_data.ok
    /\ HasKey(answer_data.value, "answer")
    /\ HasKey(answer_data.value, "citation")

\* app.py lines 132-150.  A click with an empty text box does nothing.  The
\* history is followed up to maxh entries: a full history takes no new entry.
SubmitQuestion(user_question, reply, maxh) ==
    /\ DocumentLoaded
    /\ S("interaction_mode") = "ask_anything"
    /\ LET s == InitSessionState(session_state)
           answer_data == answer_question(user_question, s["document_content"],
                                          s["qa_history"], reply)
           context == BuildContext(s["qa_history"])
       IN IF user_question = ""
          THEN /\ session_state' = s
               /\ last' = Observation("SubmitQuestion", "skipped", <<>>, <<>>, user_question,
                                      -1, NoReply, <<>>)
          ELSE IF AnswerStored(answer_data)
          THEN /\ Len(s["qa_history"]) < maxh
               /\ session_state' =
                      SetKey(s, "qa_history",
                             AddToHistory(s["qa_history"], user_question, answer_data.value))
               /\ last' = Observation("SubmitQuestion", "ok", <<"answer_question">>, <<>>,
                                      user_question, -1, reply, context)
          ELSE /\ session_state' = s
               /\ last' = Observation("SubmitQuestion", "failed", <<"answer_question">>, <<>>,
                                      user_question, -1, reply, context)
    /\ UNCHANGED <<uploaded_file, passages, extraction>>

\* Whether the stored evaluation can be displayed by app.py lines 203-222.
Displayable(evaluation) ==
    /\ HasKey(evaluation, "score")
    /\ HasKey(evaluation, "feedback")
    /\ HasKey(evaluation, "citation")

\* app.py lines 172-224: iteration i (from 0) of the loop over the questions ends
\* without an exception when no button of it is clicked.
IterationCompletes(s, i) ==
    LET question_data == s["challenge_questions"][i + 1]
    IN /\ "question" \in DOMAIN question_data
       /\ i \in DOMAIN s["challenge_answers"] =>
              /\ Displayable(s["challenge_answers"][i].evaluation)
              /\ "expected_answer" \in DOMAIN question_data

\* Mutant: an index that has an answer keeps it (setdefault).
StoreAnswerOnce(challenge_answers, i, user_answer, evaluation) ==
    IF i \in DOMAIN challenge_answers THEN challenge_answers
    ELSE SetKey(challenge_answers, i, [user_answer |-> user_answer, evaluation |-> evaluation])

\* app.py lines 193-196: st.session_state.challenge_answers[i] = {...}.
StoreAnswer(challenge_answers, i, user_answer, evaluation) ==
    SetKey(challenge_answers, i, [user_answer |-> user_answer, evaluation |-> evaluation])

\* app.py lines 183-199, in iteration i of the loop over the questions.
SubmitChallengeAnswer(i, user_answer, reply) ==
    /\ DocumentLoaded
    /\ S("interaction_mode") = "challenge_me"
    /\ S("challenge_questions") # <<>>
    /\ i \in 0..(Len(S("challenge_questions")) - 1)
    /\ \A j \in 0..(i - 1) : IterationCompletes(InitSessionState(session_state), j)
    /\ "question" \in DOMAIN S("challenge_questions")[i + 1]
    /\ LET s == InitSessionState(session_state)
           question_data == s["challenge_questions"][i + 1]
       IN IF user_answer = ""
          THEN /\ session_state' = s
               /\ last' = Observation("SubmitChallengeAnswer", "skipped", <<>>, <<>>,
                                      user_answer, i, NoReply, <<>>)
          ELSE IF "expected_answer" \notin DOMAIN question_data
          THEN /\ session_state' = s
               /\ last' = Observation("SubmitChallengeAnswer", "failed", <<>>, <<>>,
                                      user_answer, i, NoReply, <<>>)
          ELSE LET evaluation == evaluate_answer(question_data["question"], user_answer,
                                                 question_data["expected_answer"],
                                                 s["document_content"], reply)
               IN IF evaluation.ok
                  THEN /\ session_state' =
                              SetKey(s, "challenge_answers",
                                     StoreAnswer(s["challenge_answers"], i, user_answer,
                                                 evaluation.value))
                       /\ last' = Observation("SubmitChallengeAnswer", "ok",
                                              <<"evaluate_answer">>, <<>>, user_answer, i,
                                              reply, <<>>)
                  ELSE /\ session_state' = s
                       /\ last' = Observation("SubmitChallengeAnswer", "failed",
                                              <<"evaluate_answer">>, <<>>, user_answer, i,
                                              reply, <<>>)
    /\ UNCHANGED <<uploaded_file, passages, extraction>>

\* app.py lines 227-238, reached after the loop over the questions.
RegenerateChallenge(reply) ==
    /\ DocumentLoaded
    /\ S("interaction_mode") = "challenge_me"
    /\ S("challenge_questions") # <<>>
    /\ \A j \in 0..(Len(S("challenge_questions")) - 1) :
           IterationCompletes(InitSessionState(session_state), j)
    /\ LET s1 == SetKey(SetKey(InitSessionState(session_state), "challenge_questions", <<>>),
                        "challenge_answers", <<>>)
           gen == GenerateInto(s1, reply)
       IN /\ session_state' = gen.s
          /\ last' = Observation("RegenerateChallenge", IF gen.ok THEN "ok" ELSE "failed",
                                 <<"generate_challenge_questions">>, <<>>, "", -1, reply,
                                 <<>>)
    /\ UNCHANGED <<uploaded_file, passages, extraction>>

(***************************************************************************)
(* The session: app.py started, nothing uploaded.                          *)
(***************************************************************************)
Init ==
    /\ session_state = InitSessionState(<<>>)
    /\ uploaded_file = NoFile
    /\ last = Observation("Start", "skipped", <<>>, <<>>, "", -1, NoReply, <<>>)
    /\ passages = [state |-> "none"]
    /\ extraction = [state |-> "none"]

QuestionTexts == {"", "q1", "q2"}
AnswerTexts == {"", "u1"}

Session(texts, maxh, lists) ==
    \/ \E file \in Files, reply \in SummaryReplies : UploadDocument(file, reply)
    \/ RemoveFile
    \/ \E reply \in SummaryReplies : ClearDocument(reply)
    \/ SelectAskAnything
    \/ \E reply \in QuestionReplies(lists) : SelectChallengeMe(reply)
    \/ \E text \in texts, reply \in AnswerReplies : SubmitQuestion(text, reply, maxh)
    \/ \E i \in 0..(Len(S("challenge_questions")) - 1), text \in AnswerTexts,
          reply \in EvaluationReplies :
           SubmitChallengeAnswer(i, text, reply)
    \/ \E reply \in QuestionReplies(lists) : RegenerateChallenge(reply)

\* The conversation followed in depth, the quiz kept short.
Next == Session(QuestionTexts, MaxHistory, ShortQuestionLists)

Spec == Init /\ [][Next]_vars

\* The quiz followed in depth, the conversation kept short.
NextChallenge == Session({"", "q1"}, ShallowHistory, QuestionLists(MaxQuestions))

SpecChallenge == Init /\ [][NextChallenge]_vars

(***************************************************************************)
(* extract_relevant_passages on its own: a document and a count are given, *)
(* the model replies to the one call, if one is made.                      *)
(***************************************************************************)
Letters ==
    <<"a", "b", "c", "d", "e", "f", "g", "h", "i", "j", "k", "l", "m", "n", "o", "p",
      "q", "r", "s", "t", "u", "v", "w", "x">>

Repeat(c, n) == [i \in 1..n |-> c]

\* A paragraph of letter c: just long enough to be a chunk; long enough and padded
\* with whitespace; or too short by one character once stripped.
ParagraphKinds == {"long", "padded", "short"}

Paragraph(kind, c) ==
    CASE kind = "long" -> Repeat(c, MinChunkChars + 1)
      [] kind = "padded" -> <<" ">> \o Repeat(c, MinChunkChars + 2) \o <<"\n">>
      [] kind = "short" -> <<"\t">> \o Repeat(c, MinChunkChars) \o <<" ">>

\* The paragraphs of the given kinds, a blank line between two of them.
RECURSIVE JoinParagraphs(_, _)
JoinParagraphs(kinds, n) ==
    IF n = 0 THEN <<>>
    ELSE IF n = 1 THEN Paragraph(kinds[1], Letters[1])
    ELSE JoinParagraphs(kinds, n - 1) \o <<"\n", "\n">> \o Paragraph(kinds[n], Letters[n])

Document(kinds) == JoinParagraphs(kinds, Len(kinds))

\* The paragraphs of a document of more chunks than a prompt shows.
LongDocument == [i \in 1..(ChunkLimit + 2) |-> "long"]

\* The documents, each as the kinds of its paragraphs.
Documents ==
    (UNION {[1..n -> ParagraphKinds] : n \in 0..MaxParagraphs}) \cup {LongDocument}

Counts == {0, 1, 3}

IndexLists ==
    {<<>>, <<0>>, <<2, 0, 1>>, <<1, 1, 1>>, <<0, 1, 2, 3>>, <<-1, 0, 1>>, <<0, 9, 1>>,
     <<-9, 0, 1>>, <<21, 0, 1>>}

PassageReplies ==
    {TransportError, NonJson, JsonObject([other |-> "x"]),
     JsonObject([relevant_chunk_indices |-> [type |-> "other"]])}
    \cup {JsonObject([relevant_chunk_indices |-> [type |-> "list", items |-> l]]) :
              l \in IndexLists}

InitPassages ==
    /\ session_state = InitSessionState(<<>>)
    /\ uploaded_file = NoFile
    /\ last = Observation("Start", "skipped", <<>>, <<>>, "", -1, NoReply, <<>>)
    /\ passages \in {[state |-> "pending", paragraphs |-> kinds,
                        document_text |-> Document(kinds), num_passages |-> n] :
                           kinds \in Documents, n \in Counts}
    /\ extraction = [state |-> "none"]

ExtractRelevantPassages(reply) ==
    /\ passages.state = "pending"
    /\ LET call == extract_relevant_passages("q1", passages.document_text,
                                             passages.num_passages, reply)
       IN passages' = [state |-> "done",
                       paragraphs |-> passages.paragraphs,
                       document_text |-> passages.document_text,
                       num_passages |-> passages.num_passages,
                       reply |-> IF call.called THEN reply ELSE NoReply,
                       called |-> call.called,
                       sent |-> call.sent,
                       result |-> call.result]
    /\ UNCHANGED <<session_state, uploaded_file, last, extraction>>

NextPassages == \E reply \in PassageReplies : ExtractRelevantPassages(reply)

SpecPassages == InitPassages /\ [][NextPassages]_vars

(***************************************************************************)
(* extract_text on its own: a file is given.  A file is described by the   *)
(* type its name declares and by its bytes: the utf-8 and utf-16 decodings *)
(* that fail, the text the first other encoding makes of them, and the     *)
(* pages pdfplumber finds in them.                                         *)
(***************************************************************************)
MaxPages == 2

Stems == {<<"a">>, <<"a", ".", "p", "d", "f">>, <<"B", ".", "t", "x", "t">>}

\* The endings of a name after its last dot, each with the type it declares.
Extensions ==
    {[chars |-> <<"t", "x", "t">>, type |-> "txt"],
     [chars |-> <<"T", "X", "t">>, type |-> "txt"],
     [chars |-> <<"p", "d", "f">>, type |-> "pdf"],
     [chars |-> <<"P", "D", "F">>, type |-> "pdf"],
     [chars |-> <<"d", "o", "c">>, type |-> "other"],
     [chars |-> <<"t", "x", "t", "x">>, type |-> "other"],
     [chars |-> <<>>, type |-> "other"]}

Texts == {<<>>, <<" ", "\n">>, <<" ", "d", "o", "c", "\n">>, <<"d", "o", "c">>}

\* Bytes that are text: utf-8 and utf-16 fail for the first failing encodings,
\* the next encoding decodes them to content and the later ones to other.  No
\* bytes at all decode to the empty text in utf-8.
TextBytes ==
    UNION {{[content |-> content,
             decode |-> [e \in 1..Len(encodings) |->
                            IF e <= failing THEN UnicodeDecodeError
                            ELSE IF e = failing + 1 THEN Decoded(content)
                            ELSE Decoded(other)],
             pdf |-> NoPdf] :
                content \in {c \in Texts : c = <<>> => failing = 0},
                other \in {<<" ">>, <<"y">>}} :
              failing \in 0..2}

PageTexts == {<<>>, <<" ">>, <<"p", "\n">>}

\* Bytes that are a PDF of up to MaxPages pages; as text they are not blank.
PdfBytes ==
    {[content |-> <<"%", "P", "D", "F">>,
      decode |-> <<UnicodeDecodeError, UnicodeDecodeError, Decoded(<<"%", "P", "D", "F">>),
                   Decoded(<<"%", "P", "D", "F">>)>>,
      pdf |-> [ok |-> TRUE, pages |-> pages]] :
         pages \in UNION {[1..n -> PageTexts] : n \in 0..MaxPages}}

UploadedFiles ==
    {[name |-> stem \o <<".">> \o ext.chars, type |-> ext.type, content |-> bytes.content,
      decode |-> bytes.decode, pdf |-> bytes.pdf] :
         stem \in Stems, ext \in Extensions, bytes \in TextBytes \cup PdfBytes}

InitExtract ==
    /\ session_state = InitSessionState(<<>>)
    /\ uploaded_file = NoFile
    /\ last = Observation("Start", "skipped", <<>>, <<>>, "", -1, NoReply, <<>>)
    /\ passages = [state |-> "none"]
    /\ extraction \in {[state |-> "pending", file |-> f] : f \in UploadedFiles}

ExtractText ==
    /\ extraction.state = "pending"
    /\ extraction' = [state |-> "done", file |-> extraction.file,
                      result |-> extract_text(extraction.file)]
    /\ UNCHANGED <<session_state, uploaded_file, last, passages>>

NextExtract == ExtractText

SpecExtract == InitExtract /\ [][NextExtract]_vars

(***************************************************************************)
(* Properties.  Value(s, k) is what the script reads under key k from the  *)
(* session state s once lines 15-28 have run.                              *)
(***************************************************************************)
Value(s, k) == InitSessionState(s)[k]

Unchanged(k) == Value(session_state', k) = Value(session_state, k)

\* Every run leaves document_name equal to the name of the uploader's file.
UploaderInSync == uploaded_file = NoFile \/ uploaded_file.name = S("document_name")

\* C1: an upload whose file name differs from the current document name clears
\* qa_history, challenge_questions, challenge_answers and the summary (which
\* then holds the new summary only if processing succeeded); an upload whose
\* name equals it changes no session value, extracts nothing, calls no model.
UploadClearsIffNameDiffers ==
    [][last'.ev = "UploadDocument" =>
          IF last'.file = S("document_name")
          THEN /\ \A k \in Keys : Unchanged(k)
               /\ last'.calls = <<>>
          ELSE /\ Value(session_state', "qa_history") = <<>>
               /\ Value(session_state', "challenge_questions") = <<>>
               /\ Value(session_state', "challenge_answers") = <<>>
               /\ Value(session_state', "document_summary") =
                      (IF last'.outcome = "ok" THEN Strip(last'.reply.content) ELSE <<>>)
               /\ last'.calls # <<>>
               /\ Head(last'.calls) = "extract_text"]_vars

\* Witness of C1: another file of the current name was uploaded over a session with
\* a conversation and a quiz, and both are still there.
SameNameUploadKeepsSession ==
    /\ last.ev = "UploadDocument"
    /\ last.file = S("document_name")
    /\ uploaded_file = FileA2
    /\ S("qa_history") # <<>>
    /\ S("challenge_questions") # <<>>

\* C2: after an upload that failed in extraction or in summarization the session is
\* in its initial state: no name, no content, no summary, no history, no quiz.
FailedUploadLeavesInitialState ==
    (last.ev = "UploadDocument" /\ last.outcome \in {"extract_failed", "summary_failed"})
        => \A k \in Keys : S(k) = DefaultValue(k)

\* The operation an event invoked failed: the call raised, or its reply was not
\* the JSON the operation returns.
OperationFailed(obs) ==
    \/ obs.outcome = "failed"
    \/ /\ obs.calls # <<>>
       /\ \/ obs.reply.kind \in {"error", "nonjson"}
          \/ /\ obs.ev \in {"SelectChallengeMe", "RegenerateChallenge"}
             /\ ~HasKey(obs.reply, "questions")

DerivedKeys ==
    {"document_content", "document_summary", "qa_history", "challenge_questions",
     "challenge_answers"}

\* C3 as stated: a failed operation of SubmitQuestion, SubmitChallengeAnswer,
\* SelectChallengeMe or RegenerateChallenge leaves document content, summary,
\* qa_history, challenge_questions and challenge_answers as they were.
FailedOperationChangesNothing ==
    [][(/\ last'.ev \in {"SubmitQuestion", "SubmitChallengeAnswer", "SelectChallengeMe",
                         "RegenerateChallenge"}
        /\ OperationFailed(last'))
           => \A k \in DerivedKeys : Unchanged(k)]_vars

\* C3 amended: as stated for SubmitQuestion, SubmitChallengeAnswer and
\* SelectChallengeMe; a failed RegenerateChallenge leaves document content, summary
\* and qa_history as they were and challenge_questions and challenge_answers empty.
FailedOperationChangesNothingButRegenerate ==
    [][(/\ last'.ev \in {"SubmitQuestion", "SubmitChallengeAnswer", "SelectChallengeMe",
                         "RegenerateChallenge"}
        /\ OperationFailed(last'))
           => IF last'.ev = "RegenerateChallenge"
              THEN /\ \A k \in {"document_content", "document_summary", "qa_history"} :
                          Unchanged(k)
                   /\ Value(session_state', "challenge_questions") = <<>>
                   /\ Value(session_state', "challenge_answers") = <<>>
              ELSE \A k \in DerivedKeys : Unchanged(k)]_vars

\* Witness of C3: an evaluation failed in transport while an earlier answer and a
\* conversation were held.
EvaluationFailedOverState ==
    /\ last.ev = "SubmitChallengeAnswer"
    /\ last.reply = TransportError
    /\ S("challenge_answers") # <<>>
    /\ S("qa_history") # <<>>

\* The replies with which SubmitQuestion has no answer to store.
UnusableAnswer(reply) ==
    \/ reply.kind \in {"error", "nonjson"}
    \/ reply.kind = "object" /\ ~({"answer", "citation"} \subseteq DOMAIN reply.fields)

\* C4: when the reply to SubmitQuestion is not JSON, or lacks the answer or the
\* citation key, or the transport fails, qa_history is the same sequence afterwards.
BadReplyLeavesHistory ==
    [][(last'.ev = "SubmitQuestion" /\ UnusableAnswer(last'.reply))
           => Value(session_state', "qa_history") = S("qa_history")]_vars

\* Witness of C4: a reply that is not JSON arrived on a history of one entry.
NonJsonReplyOnHistory ==
    /\ last.ev = "SubmitQuestion"
    /\ last.reply = NonJson
    /\ Len(S("qa_history")) = 1

\* An upload of a file named otherwise than the current document, or a clear.
DocumentChange(obs) ==
    \/ obs.ev = "ClearDocument"
    \/ obs.ev = "UploadDocument" /\ obs.file # S("document_name")

\* C5: a successful SubmitQuestion(text) adds one entry at the end, made of text and
\* of the reply's answer and citation; no event but a document change touches the
\* entries qa_history holds.
HistoryAppendOnly ==
    [][LET before == S("qa_history")
           after == Value(session_state', "qa_history")
       IN IF last'.ev = "SubmitQuestion" /\ last'.outcome = "ok"
          THEN /\ Len(after) = Len(before) + 1
               /\ SubSeq(after, 1, Len(before)) = before
               /\ after[Len(after)] = [question |-> last'.text,
                                       answer |-> last'.reply.fields["answer"],
                                       citation |-> last'.reply.fields["citation"]]
          ELSE DocumentChange(last') \/ after = before]_vars

\* Witness of C5: a question was answered and stored after a different one.
SecondDifferentQuestionStored ==
    /\ last.ev = "SubmitQuestion"
    /\ last.outcome = "ok"
    /\ Len(S("qa_history")) >= 2
    /\ S("qa_history")[1].question # last.text

\* The entries of h from position lo on, each as Q and A, in order.
RECURSIVE RenderFrom(_, _)
RenderFrom(h, lo) ==
    IF lo > Len(h) THEN <<>>
    ELSE <<"Q: ", h[lo].question, "\nA: ", h[lo].answer, "\n\n">> \o RenderFrom(h, lo + 1)

\* C6: the context block of an answer prompt on a history of n entries is empty
\* for n = 0 and else made of entries n - min(n, 3) + 1 .. n, in that order.
ContextIsLastThree ==
    [][(last'.ev = "SubmitQuestion" /\ last'.calls # <<>>)
           => LET h == S("qa_history")
                  n == Len(h)
              IN last'.context =
                     IF n = 0 THEN <<>>
                     ELSE <<"Previous conversation:\n">> \o RenderFrom(h, n - Min(n, 3) + 1)]_vars

\* Witness of C6: a prompt was sent on a history of four entries that begins with
\* two different questions.
PromptOnLongHistory ==
    /\ last.ev = "SubmitQuestion"
    /\ last.outcome = "failed"
    /\ Len(S("qa_history")) = 4
    /\ S("qa_history")[1].question # S("qa_history")[2].question

\* The eligible chunks of a document made of paragraphs of the given kinds: the
\* letters of every paragraph that is not short, without its padding, in order.
RECURSIVE EligibleChunks(_, _)
EligibleChunks(kinds, n) ==
    IF n = 0 THEN <<>>
    ELSE EligibleChunks(kinds, n - 1) \o
         (CASE kinds[n] = "long" -> <<Repeat(Letters[n], MinChunkChars + 1)>>
            [] kinds[n] = "padded" -> <<Repeat(Letters[n], MinChunkChars + 2)>>
            [] kinds[n] = "short" -> <<>>)

DocumentChunks(p) == EligibleChunks(p.paragraphs, Len(p.paragraphs))

\* C7 as stated: on a document of more than 3 eligible chunks a call with count 3
\* returns, whatever the model does, exactly 3 strings, each a chunk of the document.
PassagesAlwaysThree ==
    (/\ passages.state = "done"
     /\ passages.num_passages = 3
     /\ Len(DocumentChunks(passages)) > 3)
        => /\ passages.result.ok
           /\ Len(passages.result.value) = 3
           /\ \A k \in 1..Len(passages.result.value) :
                  \E c \in 1..Len(DocumentChunks(passages)) :
                      passages.result.value[k] = DocumentChunks(passages)[c]

\* C8: on a document of at most N eligible chunks a call with count N returns all
\* the eligible chunks, in document order, and the model is not called.
FewChunksAllReturnedWithoutCall ==
    (/\ passages.state = "done"
     /\ Len(DocumentChunks(passages)) <= passages.num_passages)
        => /\ passages.result = Returned(DocumentChunks(passages))
           /\ ~passages.called
           /\ passages.reply = NoReply

\* Witness of C8: a call with count 3 on a document of a padded, a short and a long
\* paragraph among others returned its three chunks.
ThreeChunksOfMixedDocument ==
    /\ passages.state = "done"
    /\ passages.num_passages = 3
    /\ Len(passages.result.value) = 3
    /\ Len(passages.paragraphs) > 3
    /\ {"padded", "short", "long"} \subseteq {passages.paragraphs[k] : k \in 1..Len(passages.paragraphs)}
    /\ ~passages.called

\* C9 as stated: challenge_questions holds no question or exactly 3 in every state.
ChallengeQuestionsNoneOrThree == Len(S("challenge_questions")) \in {0, 3}

\* C10: a successful SubmitChallengeAnswer(index, text) makes challenge_answers hold
\* text and its evaluation under index, in place of what index held, one entry per
\* index; the entries of the other indices, challenge_questions, qa_history, the
\* document and the summary stay as they were.
AnswerUpserted ==
    [][(last'.ev = "SubmitChallengeAnswer" /\ last'.outcome = "ok")
           => LET before == S("challenge_answers")
                  after == Value(session_state', "challenge_answers")
                  i == last'.index
              IN /\ DOMAIN after = DOMAIN before \cup {i}
                 /\ after[i] = [user_answer |-> last'.text, evaluation |-> last'.reply]
                 /\ \A j \in DOMAIN before \ {i} : after[j] = before[j]
                 /\ \A k \in {"challenge_questions", "qa_history", "document_name",
                               "document_content", "document_summary"} : Unchanged(k)]_vars

\* Witness of C10: the second question was answered and evaluated while the first
\* had an answer and the conversation an entry.
SecondAnswerStoredBesideFirst ==
    /\ last.ev = "SubmitChallengeAnswer"
    /\ last.outcome = "ok"
    /\ last.index = 1
    /\ DOMAIN S("challenge_answers") = {0, 1}
    /\ S("qa_history") # <<>>

EvaluationFields == {"score", "feedback", "strengths", "areas_for_improvement", "citation"}

\* C11 as stated: every entry of challenge_answers holds an evaluation of all five
\* fields whose score is an integer of 0..100; a JSON reply of another shape is not
\* stored.
StoredEvaluationsWellFormed ==
    \A i \in DOMAIN S("challenge_answers") :
        LET evaluation == S("challenge_answers")[i].evaluation
        IN /\ evaluation.kind = "object"
           /\ EvaluationFields \subseteq DOMAIN evaluation.fields
           /\ evaluation.fields["score"] \in 0..100

\* C12 as stated: answer_question returns a result when the reply is a JSON object
\* with the keys answer, citation and confidence, and fails on every other reply.
AnswerRequiresThreeKeys ==
    (last.ev = "SubmitQuestion" /\ last.calls # <<>>)
        => (answer_question(last.text, S("document_content"), S("qa_history"), last.reply).ok
               <=> /\ last.reply.kind = "object"
                   /\ {"answer", "citation", "confidence"} \subseteq DOMAIN last.reply.fields)

\* C13 as stated: generate_summary fails on an empty or whitespace-only reply, so an
\* upload that succeeded leaves a summary that is not empty.
SuccessfulUploadHasSummary ==
    (last.ev = "UploadDocument" /\ last.outcome = "ok")
        => /\ generate_summary(S("document_content"), last.reply).ok
           /\ Strip(last.reply.content) # <<>>
           /\ S("document_summary") # <<>>

Blank(text) == \A k \in 1..Len(text) : text[k] \in Whitespace

\* C14: extract_text returns a text that is not empty, not blank and has no
\* whitespace at either end, or it fails; it fails on every file whose name
\* declares a type other than pdf and txt, whatever the case of its letters, and on
\* every txt file whose decoded content is empty or blank.
ExtractedTextNonEmptyOrFails ==
    extraction.state = "done"
        => LET file == extraction.file
               result == extraction.result
           IN /\ result.ok => /\ result.value # <<>>
                              /\ ~Blank(result.value)
                              /\ result.value[1] \notin Whitespace
                              /\ result.value[Len(result.value)] \notin Whitespace
              /\ file.type = "other" => ~result.ok
              /\ (file.type = "txt" /\ Blank(file.content)) => ~result.ok

\* Witness of C14: a file whose name ends in .TXt, not utf-8 and blank as utf-16,
\* was refused.
BlankUtf16TextRefused ==
    /\ extraction.state = "done"
    /\ extraction.file.type = "txt"
    /\ extraction.file.name[Len(extraction.file.name) - 1] = "X"
    /\ ~extraction.file.decode[1].ok
    /\ extraction.file.decode[2] = Decoded(<<" ", "\n">>)
    /\ extraction.file.decode[3] = Decoded(<<"y">>)
    /\ ~extraction.result.ok

\* C15: after SelectMode(challenge_me) the mode is challenge_me; questions that were
\* held are kept and no call is made; with none held, one call is made and the
\* questions are the generated list, or none if the generation failed.  The
\* answers, the conversation, the document and the summary stay as they were.
ChallengeModeGeneratesOnlyWhenEmpty ==
    [][last'.ev = "SelectChallengeMe"
           => /\ Value(session_state', "interaction_mode") = "challenge_me"
              /\ IF S("challenge_questions") # <<>>
                 THEN /\ Unchanged("challenge_questions")
                      /\ last'.calls = <<>>
                 ELSE /\ last'.calls = <<"generate_challenge_questions">>
                      /\ Value(session_state', "challenge_questions") =
                             IF HasKey(last'.reply, "questions")
                             THEN last'.reply.fields["questions"]
                             ELSE <<>>
              /\ \A k \in {"challenge_answers", "qa_history", "document_name",
                            "document_content", "document_summary"} : Unchanged(k)]_vars

\* Witness of C15: Challenge Me was selected while three questions, an answer and
\* a conversation were held, and no call was made.
ChallengeSelectedOverQuiz ==
    /\ last.ev = "SelectChallengeMe"
    /\ last.calls = <<>>
    /\ Len(S("challenge_questions")) = 3
    /\ S("challenge_answers") # <<>>
    /\ S("qa_history") # <<>>

\* C16 as stated: when the model returns a list of indices the result is the chunks
\* at the indices of 0..len(chunks)-1, in the returned order, an index outside that
\* range (a negative one too) gives no passage, and every passage returned is one
\* of the chunks that were sent.
PassagesAtReturnedIndicesInRange ==
    (/\ passages.state = "done"
     /\ passages.called
     /\ HasKey(passages.reply, "relevant_chunk_indices")
     /\ passages.reply.fields["relevant_chunk_indices"].type = "list")
        => LET chunks == DocumentChunks(passages)
               InRange(i) == 0 <= i /\ i < Len(chunks)
               indices == SelectSeq(passages.reply.fields["relevant_chunk_indices"].items,
                                    InRange)
           IN /\ passages.result = Returned([k \in 1..Len(indices) |-> chunks[indices[k] + 1]])
              /\ \A k \in 1..Len(passages.result.value) :
                     \E c \in 1..Len(passages.sent) :
                         passages.result.value[k] = passages.sent[c]

\* C17: every key of challenge_answers is an index of the challenge_questions held:
\* at least 0 and less than their number.
AnswerKeysIndexQuestions ==
    \A i \in DOMAIN S("challenge_answers") : 0 <= i /\ i < Len(S("challenge_questions"))

\* Witness of C17: the third of three questions was answered after the other two.
ThirdAnswerStored ==
    /\ last.ev = "SubmitChallengeAnswer"
    /\ last.outcome = "ok"
    /\ last.index = 2
    /\ DOMAIN S("challenge_answers") = {0, 1, 2}
    /\ Len(S("challenge_questions")) = 3

\* C18: a session that has a mode, a conversation, questions or answers has a
\* document loaded: its content is not empty.
InteractionImpliesDocument ==
    (\/ S("interaction_mode") # "None"
     \/ S("qa_history") # <<>>
     \/ S("challenge_questions") # <<>>
     \/ S("challenge_answers") # <<>>)
        => S("document_content") # <<>>

\* Witness of C18: a session holds a mode, a conversation, a question and an answer
\* over a document that has no summary.
FullSessionWithoutSummary ==
    /\ S("interaction_mode") = "ask_anything"
    /\ S("qa_history") # <<>>
    /\ S("challenge_questions") # <<>>
    /\ S("challenge_answers") # <<>>
    /\ S("document_summary") = <<>>
    /\ S("document_content") # <<>>

====
